---------------------------- MODULE Spec2Model ----------------------------
(***************************************************************************)
(* A model of nrpe_template.py: the NRPE return-code aggregator (ok,       *)
(* warning, critical, unknown, update_return_code, get_final_return_code), *)
(* the threshold evaluator (evaluate_numeric_thresholds), the performance  *)
(* data recorder (add_performance_data), the renderer (print_results),    *)
(* the threshold parser (parse_thresholds) and the run of the sample       *)
(* checks (perform_checks).                                                *)
(*                                                                         *)
(* Python str values that are only formatted and joined are TLA+ strings   *)
(* (\o is concatenation, ToString is str() of an int).  The argument of    *)
(* parse_thresholds is split and converted character by character, so it   *)
(* is a sequence of one-character strings.                                 *)
(***************************************************************************)
EXTENDS Integers, Sequences, FiniteSets, TLC

VARIABLES
    return_code,        \* global return_code
    message_groups,     \* global message_groups: level -> list of messages
    quiet,              \* global quiet
    performance_data,   \* global performance_data: list of records
    stdout,             \* the lines printed by print_results
    exit_code,          \* <<>> while the process runs, <<rc>> once it exited
    pc,                 \* position in perform_checks (the name of the call
                        \* to come) and in __main__: "checks", "printed",
                        \* "exited"
    calls,              \* log of the calls of ok/warning/critical/unknown
    spec,               \* the argument of parse_thresholds
    parsed,             \* the outcome of parse_thresholds(spec)
    parsed_args,        \* the options process_args returned
    current_second,     \* the outcome of get_second()
    supports_tls_context, \* global supports_tls_context
    tls_context,        \* global tls_context: "None" or "context"
    side_effect         \* the check patched to raise Exception, or "none"

\* the variables of perform_checks
run_vars == <<parsed_args, current_second, supports_tls_context, tls_context,
              side_effect>>

vars == <<return_code, message_groups, quiet, performance_data, stdout,
          exit_code, pc, calls, spec, parsed, run_vars>>

---------------------------------------------------------------------------
(* Bounds of the model *)

\* most calls of ok/warning/critical/unknown in one run
MaxCalls == 3
\* most calls of add_performance_data in one run
MaxPerf == 1
\* evaluate_numeric_thresholds is explored on values and thresholds 0..MaxValue
MaxValue == 3
\* most calls of evaluate_numeric_thresholds in a run of SpecEval
MaxEvalCalls == 1
\* longest argument of parse_thresholds, in characters
MaxSpecLen == 7
\* most messages of one category in an initial state of SpecRender
MaxGroupLen == 2
\* most calls of add_performance_data in a run of SpecPerf
MaxPerfCalls == 2

---------------------------------------------------------------------------
(* NRPE standard return codes *)

OK_RC == 0
WARNING_RC == 1
CRITICAL_RC == 2
UNKNOWN_RC == 3
UNDEFINED_RC == -1

\* message_groups with CRITICAL ahead of UNKNOWN
Levels_critical_first == <<"CRITICAL", "UNKNOWN", "WARNING", "OK">>

\* the keys of message_groups, in the order of the OrderedDict
Levels == <<"UNKNOWN", "CRITICAL", "WARNING", "OK">>

LevelSet == {Levels[i] : i \in 1..Len(Levels)}

\* the return code each helper passes to update_return_code
RankOf(level) ==
    CASE level = "OK" -> OK_RC
      [] level = "WARNING" -> WARNING_RC
      [] level = "CRITICAL" -> CRITICAL_RC
      [] level = "UNKNOWN" -> UNKNOWN_RC

---------------------------------------------------------------------------
(* The aggregator *)

\* update_return_code with the comparison turned round
update_return_code_lt(new_code) ==
    IF new_code < return_code THEN new_code ELSE return_code

\* update_return_code letting the last code win
update_return_code_last(new_code) == new_code

\* update_return_code: the new value of the global return_code
update_return_code(new_code) ==
    IF new_code > return_code THEN new_code ELSE return_code

\* get_final_return_code without the override of UNDEFINED_RC
get_final_return_code_raw == return_code

get_final_return_code ==
    IF return_code = UNDEFINED_RC THEN UNKNOWN_RC ELSE return_code

ok(message) ==
    /\ return_code' = update_return_code(OK_RC)
    /\ message_groups' = [message_groups EXCEPT !["OK"] = Append(@, message)]
    /\ calls' = Append(calls, <<"OK", message>>)

\* warning putting the message in front of the list
warning_prepend(message) ==
    /\ return_code' = update_return_code(WARNING_RC)
    /\ message_groups' = [message_groups EXCEPT !["WARNING"] = <<message>> \o @]
    /\ calls' = Append(calls, <<"WARNING", message>>)

warning(message) ==
    /\ return_code' = update_return_code(WARNING_RC)
    /\ message_groups' = [message_groups EXCEPT !["WARNING"] = Append(@, message)]
    /\ calls' = Append(calls, <<"WARNING", message>>)

\* critical without the call of update_return_code
critical_no_update(message) ==
    /\ return_code' = return_code
    /\ message_groups' = [message_groups EXCEPT !["CRITICAL"] = Append(@, message)]
    /\ calls' = Append(calls, <<"CRITICAL", message>>)

critical(message) ==
    /\ return_code' = update_return_code(CRITICAL_RC)
    /\ message_groups' = [message_groups EXCEPT !["CRITICAL"] = Append(@, message)]
    /\ calls' = Append(calls, <<"CRITICAL", message>>)

unknown(message) ==
    /\ return_code' = update_return_code(UNKNOWN_RC)
    /\ message_groups' = [message_groups EXCEPT !["UNKNOWN"] = Append(@, message)]
    /\ calls' = Append(calls, <<"UNKNOWN", message>>)

---------------------------------------------------------------------------
(* The threshold evaluator *)

\* "{name} {value}{units}{relationship}{threshold}{units}".format(**message_values)
error_template(name, value, units, relationship, threshold) ==
    name \o " " \o ToString(value) \o units \o relationship
         \o ToString(threshold) \o units

\* "{name} {value}{units}".format(name=name, value=value, units=units)
ok_message(name, value, units) ==
    name \o " " \o ToString(value) \o units

\* evaluate_numeric_thresholds with strict comparisons
evaluate_numeric_thresholds_strict(name, value, warning_threshold, critical_threshold, units, greater_than) ==
    IF greater_than
    THEN IF value > critical_threshold
         THEN critical(error_template(name, value, units, ">", critical_threshold))
         ELSE IF value > warning_threshold
              THEN warning(error_template(name, value, units, ">", warning_threshold))
              ELSE ok(ok_message(name, value, units))
    ELSE IF value < critical_threshold
         THEN critical(error_template(name, value, units, "<", critical_threshold))
         ELSE IF value < warning_threshold
              THEN warning(error_template(name, value, units, "<", warning_threshold))
              ELSE ok(ok_message(name, value, units))

\* evaluate_numeric_thresholds with "if" in place of "elif": a value that
\* reaches both thresholds is recorded as CRITICAL and as WARNING
evaluate_numeric_thresholds_if(name, value, warning_threshold, critical_threshold, units, greater_than) ==
    LET relationship == IF greater_than THEN ">" ELSE "<"
        reaches(threshold) == IF greater_than THEN value >= threshold ELSE value <= threshold
        critical_message == error_template(name, value, units, relationship, critical_threshold)
        warning_message == error_template(name, value, units, relationship, warning_threshold)
    IN IF reaches(critical_threshold) /\ reaches(warning_threshold)
       THEN /\ return_code' = (IF CRITICAL_RC > return_code THEN CRITICAL_RC ELSE return_code)
            /\ message_groups' = [message_groups EXCEPT !["CRITICAL"] = Append(@, critical_message),
                                                        !["WARNING"] = Append(@, warning_message)]
            /\ calls' = calls \o << <<"CRITICAL", critical_message>>, <<"WARNING", warning_message>> >>
       ELSE IF reaches(critical_threshold) THEN critical(critical_message)
       ELSE IF reaches(warning_threshold) THEN warning(warning_message)
       ELSE ok(ok_message(name, value, units))

\* evaluate_numeric_thresholds testing the warning threshold first
evaluate_numeric_thresholds_warning_first(name, value, warning_threshold, critical_threshold, units, greater_than) ==
    IF greater_than
    THEN IF value >= warning_threshold
         THEN warning(error_template(name, value, units, ">", warning_threshold))
         ELSE IF value >= critical_threshold
              THEN critical(error_template(name, value, units, ">", critical_threshold))
              ELSE ok(ok_message(name, value, units))
    ELSE IF value <= warning_threshold
         THEN warning(error_template(name, value, units, "<", warning_threshold))
         ELSE IF value <= critical_threshold
              THEN critical(error_template(name, value, units, "<", critical_threshold))
              ELSE ok(ok_message(name, value, units))

evaluate_numeric_thresholds(name, value, warning_threshold, critical_threshold, units, greater_than) ==
    IF greater_than
    THEN IF value >= critical_threshold
         THEN critical(error_template(name, value, units, ">", critical_threshold))
         ELSE IF value >= warning_threshold
              THEN warning(error_template(name, value, units, ">", warning_threshold))
              ELSE ok(ok_message(name, value, units))
    ELSE IF value <= critical_threshold
         THEN critical(error_template(name, value, units, "<", critical_threshold))
         ELSE IF value <= warning_threshold
              THEN warning(error_template(name, value, units, "<", warning_threshold))
              ELSE ok(ok_message(name, value, units))

---------------------------------------------------------------------------
(* The performance data recorder *)

\* an optional argument: <<>> when the caller leaves the default '',
\* <<n>> when the caller passes the number n
Absent == <<>>
Given(n) == <<n>>

\* str.format of an optional argument: '' formats as '', n as its decimal
format_field(arg) == IF arg = Absent THEN "" ELSE ToString(arg[1])

\* data_string leaving out an absent field together with its semicolon
data_string_omit(name, value, units, warning_threshold, critical_threshold, lower_limit, upper_limit) ==
    "'" \o name \o "'=" \o ToString(value) \o units \o ";"
        \o (IF warning_threshold = Absent THEN "" ELSE format_field(warning_threshold) \o ";")
        \o (IF critical_threshold = Absent THEN "" ELSE format_field(critical_threshold) \o ";")
        \o (IF lower_limit = Absent THEN "" ELSE format_field(lower_limit) \o ";")
        \o (IF upper_limit = Absent THEN "" ELSE format_field(upper_limit) \o ";")

\* the data_string built by add_performance_data
data_string(name, value, units, warning_threshold, critical_threshold, lower_limit, upper_limit) ==
    "'" \o name \o "'=" \o ToString(value) \o units \o ";"
        \o format_field(warning_threshold) \o ";"
        \o format_field(critical_threshold) \o ";"
        \o format_field(lower_limit) \o ";"
        \o format_field(upper_limit) \o ";"

add_performance_data(name, value, units, warning_threshold, critical_threshold, lower_limit, upper_limit) ==
    performance_data' =
        Append(performance_data,
               data_string(name, value, units, warning_threshold,
                           critical_threshold, lower_limit, upper_limit))

---------------------------------------------------------------------------
(* The renderer *)

\* sep.join(strings)
RECURSIVE join(_, _)
join(sep, strings) ==
    IF Len(strings) = 0 THEN ""
    ELSE IF Len(strings) = 1 THEN strings[1]
    ELSE strings[1] \o sep \o join(sep, Tail(strings))

\* messages_blocks without the test len(messages) > 0
RECURSIVE messages_blocks_empty(_)
messages_blocks_empty(i) ==
    IF i > Len(Levels) THEN <<>>
    ELSE LET level == Levels[i]
             messages == message_groups[level]
         IN IF quiet /\ level = "OK" THEN messages_blocks_empty(i + 1)
            ELSE <<level \o ": " \o join(", ", messages)>>
                     \o messages_blocks_empty(i + 1)

\* messages_blocks skipping WARNING as well as OK when quiet is true
RECURSIVE messages_blocks_quiet_warning(_)
messages_blocks_quiet_warning(i) ==
    IF i > Len(Levels) THEN <<>>
    ELSE LET level == Levels[i]
             messages == message_groups[level]
         IN IF quiet /\ level \in {"OK", "WARNING"} THEN messages_blocks_quiet_warning(i + 1)
            ELSE IF Len(messages) > 0
                 THEN <<level \o ": " \o join(", ", messages)>>
                          \o messages_blocks_quiet_warning(i + 1)
                 ELSE messages_blocks_quiet_warning(i + 1)

\* messages_blocks after the loop over message_groups.items() has handled
\* the levels from position i on
RECURSIVE messages_blocks(_)
messages_blocks(i) ==
    IF i > Len(Levels) THEN <<>>
    ELSE LET level == Levels[i]
             messages == message_groups[level]
         IN IF quiet /\ level = "OK" THEN messages_blocks(i + 1)
            ELSE IF Len(messages) > 0
                 THEN <<level \o ": " \o join(", ", messages)>>
                          \o messages_blocks(i + 1)
                 ELSE messages_blocks(i + 1)

\* the line print_results prints
print_results ==
    LET all_messages == join("; ", messages_blocks(1))
        perfdata_concat == join(" ", performance_data)
    IN IF Len(performance_data) > 0
       THEN all_messages \o "|" \o perfdata_concat
       ELSE all_messages

---------------------------------------------------------------------------
(* The threshold parser *)

\* the characters a threshold specification is made of in this model: two
\* digits, the sign, a character int() rejects, and the separator
Chars == {"0", "1", "-", "x", ":"}

DigitChars == <<"0", "1", "2", "3", "4", "5", "6", "7", "8", "9">>

IsDigit(ch) == \E d \in 1..Len(DigitChars) : DigitChars[d] = ch

DigitValue(ch) == (CHOOSE d \in 1..Len(DigitChars) : DigitChars[d] = ch) - 1

\* Python values of the returned list: an int, a str, None
PyInt(n) == <<"int", n>>
PyStr(s) == <<"str", s>>
PyNone == <<"None">>

\* the outcomes of a call
NotCalled == <<"not called">>
Raised(exc, kind) == <<"raised", exc, kind>>
Returned(value) == <<"returned", value>>

\* spec.split(':'): the segments between the separators, at least one
RECURSIVE split(_)
split(s) ==
    IF \A i \in 1..Len(s) : s[i] # ":"
    THEN <<s>>
    ELSE LET i == CHOOSE k \in 1..Len(s) : s[k] = ":" /\ \A j \in 1..(k - 1) : s[j] # ":"
         IN <<SubSeq(s, 1, i - 1)>> \o split(SubSeq(s, i + 1, Len(s)))

\* all(parts): no part is the empty string
all(parts) == \A i \in 1..Len(parts) : Len(parts[i]) > 0

\* whether int(text) returns a value (it raises ValueError otherwise), for
\* texts over Chars: an optional sign followed by one or more digits
int_accepts(text) ==
    LET digits == IF Len(text) > 0 /\ text[1] = "-" THEN Tail(text) ELSE text
    IN /\ Len(digits) > 0
       /\ \A i \in 1..Len(digits) : IsDigit(digits[i])

\* the digits read left to right, n being the value of the first k of them
RECURSIVE int_digits(_, _, _)
int_digits(digits, k, n) ==
    IF k = Len(digits) THEN n
    ELSE int_digits(digits, k + 1, 10 * n + DigitValue(digits[k + 1]))

\* int(text) for a text int() accepts
int(text) ==
    IF text[1] = "-" THEN 0 - int_digits(Tail(text), 0, 0)
    ELSE int_digits(text, 0, 0)

\* parse_thresholds returning '' for the units when there is no third part
parse_thresholds_blank_units(spec_string) ==
    LET parts == split(spec_string)
    IN IF ~all(parts)
       THEN Raised("ValueError", "BlankSegment")
       ELSE IF ~int_accepts(parts[1])
       THEN Raised("ValueError", "NotNumeric")
       ELSE IF Len(parts) < 2
       THEN Raised("IndexError", "TooFewThresholds")
       ELSE IF ~int_accepts(parts[2])
       THEN Raised("ValueError", "NotNumeric")
       ELSE IF Len(parts) > 3
       THEN Raised("ValueError", "TooManyThresholds")
       ELSE Returned(<<PyInt(int(parts[1])), PyInt(int(parts[2])),
                       IF Len(parts) > 2 THEN PyStr(parts[3]) ELSE PyStr(<<>>)>>)

\* parse_thresholds testing any(parts) in place of all(parts)
parse_thresholds_any(spec_string) ==
    LET parts == split(spec_string)
    IN IF \A i \in 1..Len(parts) : Len(parts[i]) = 0
       THEN Raised("ValueError", "BlankSegment")
       ELSE IF ~int_accepts(parts[1])
       THEN Raised("ValueError", "NotNumeric")
       ELSE IF Len(parts) < 2
       THEN Raised("IndexError", "TooFewThresholds")
       ELSE IF ~int_accepts(parts[2])
       THEN Raised("ValueError", "NotNumeric")
       ELSE IF Len(parts) > 3
       THEN Raised("ValueError", "TooManyThresholds")
       ELSE Returned(<<PyInt(int(parts[1])), PyInt(int(parts[2])),
                       IF Len(parts) > 2 THEN PyStr(parts[3]) ELSE PyNone>>)

\* parse_thresholds with "except (IndexError, ValueError)"
parse_thresholds_except_both(spec_string) ==
    LET parts == split(spec_string)
    IN IF ~all(parts)
       THEN Raised("ValueError", "BlankSegment")
       ELSE IF ~int_accepts(parts[1])
       THEN Raised("IndexError", "TooFewThresholds")
       ELSE IF Len(parts) < 2
       THEN Raised("IndexError", "TooFewThresholds")
       ELSE IF ~int_accepts(parts[2])
       THEN Raised("IndexError", "TooFewThresholds")
       ELSE IF Len(parts) > 3
       THEN Raised("ValueError", "TooManyThresholds")
       ELSE Returned(<<PyInt(int(parts[1])), PyInt(int(parts[2])),
                       IF Len(parts) > 2 THEN PyStr(parts[3]) ELSE PyNone>>)

\* parse_thresholds without the check of what is left after the units
parse_thresholds_no_limit(spec_string) ==
    LET parts == split(spec_string)
    IN IF ~all(parts)
       THEN Raised("ValueError", "BlankSegment")
       ELSE IF ~int_accepts(parts[1])
       THEN Raised("ValueError", "NotNumeric")
       ELSE IF Len(parts) < 2
       THEN Raised("IndexError", "TooFewThresholds")
       ELSE IF ~int_accepts(parts[2])
       THEN Raised("ValueError", "NotNumeric")
       ELSE Returned(<<PyInt(int(parts[1])), PyInt(int(parts[2])),
                       IF Len(parts) > 2 THEN PyStr(parts[3]) ELSE PyNone>>)

\* parse_thresholds converting the units with int() as well
parse_thresholds_int_units(spec_string) ==
    LET parts == split(spec_string)
    IN IF ~all(parts)
       THEN Raised("ValueError", "BlankSegment")
       ELSE IF ~int_accepts(parts[1])
       THEN Raised("ValueError", "NotNumeric")
       ELSE IF Len(parts) < 2
       THEN Raised("IndexError", "TooFewThresholds")
       ELSE IF ~int_accepts(parts[2])
       THEN Raised("ValueError", "NotNumeric")
       ELSE IF Len(parts) > 2 /\ ~int_accepts(parts[3])
       THEN Raised("ValueError", "NotNumeric")
       ELSE IF Len(parts) > 3
       THEN Raised("ValueError", "TooManyThresholds")
       ELSE Returned(<<PyInt(int(parts[1])), PyInt(int(parts[2])),
                       IF Len(parts) > 2 THEN PyInt(int(parts[3])) ELSE PyNone>>)

parse_thresholds(spec_string) ==
    LET parts == split(spec_string)
    IN IF ~all(parts)
       THEN Raised("ValueError", "BlankSegment")
       ELSE IF ~int_accepts(parts[1])
       THEN Raised("ValueError", "NotNumeric")
       ELSE IF Len(parts) < 2
       THEN Raised("IndexError", "TooFewThresholds")
       ELSE IF ~int_accepts(parts[2])
       THEN Raised("ValueError", "NotNumeric")
       ELSE IF Len(parts) > 3
       THEN Raised("ValueError", "TooManyThresholds")
       ELSE Returned(<<PyInt(int(parts[1])), PyInt(int(parts[2])),
                       IF Len(parts) > 2 THEN PyStr(parts[3]) ELSE PyNone>>)

---------------------------------------------------------------------------
(* The inputs the operations are explored on *)

\* the messages the tests pass to ok, warning, critical and unknown
Messages == {"test", "test_ok"}

\* the calls of evaluate_numeric_thresholds made by the tests
EvalCases ==
    { [name |-> "test", value |-> 1, warning_threshold |-> 2, critical_threshold |-> 3, units |-> "", greater_than |-> TRUE],
      [name |-> "test", value |-> 3, warning_threshold |-> 2, critical_threshold |-> 1, units |-> "", greater_than |-> FALSE],
      [name |-> "test", value |-> 2, warning_threshold |-> 1, critical_threshold |-> 3, units |-> "", greater_than |-> TRUE],
      [name |-> "test", value |-> 2, warning_threshold |-> 3, critical_threshold |-> 1, units |-> "", greater_than |-> FALSE],
      [name |-> "test", value |-> 3, warning_threshold |-> 1, critical_threshold |-> 2, units |-> "x", greater_than |-> TRUE],
      [name |-> "test", value |-> 1, warning_threshold |-> 3, critical_threshold |-> 2, units |-> "", greater_than |-> FALSE] }

\* the calls of add_performance_data made by the test and by perform_checks
PerfCases ==
    { [name |-> "name", value |-> 1, units |-> "x", warning_threshold |-> Given(2), critical_threshold |-> Given(3), lower_limit |-> Given(0), upper_limit |-> Given(5)],
      [name |-> "current second", value |-> 5, units |-> "s", warning_threshold |-> Absent, critical_threshold |-> Absent, lower_limit |-> Given(0), upper_limit |-> Given(59)] }

\* the values and thresholds evaluate_numeric_thresholds is explored on
Values == 0..MaxValue
EvalNames == {"test"}
EvalUnits == {"", "x"}

\* the arguments parse_thresholds is explored on
SpecStrings == UNION {[1..n -> Chars] : n \in 0..MaxSpecLen}

---------------------------------------------------------------------------
(* The options and the globals of perform_checks *)

\* process_args([]): the defaults of the options; an option without a
\* default is None, here the empty string (both are false in an if)
DefaultArgs ==
    [validate |-> TRUE, quiet |-> FALSE, good |-> <<"all">>, prime |-> FALSE,
     range_above |-> <<>>, range_below |-> <<>>]

\* perform_checks is not running: the options at their defaults, get_second
\* not called, tls_context = None, no check patched
NoRun ==
    /\ parsed_args = DefaultArgs
    /\ current_second = NotCalled
    /\ supports_tls_context = TRUE
    /\ tls_context = "None"
    /\ side_effect = "none"

---------------------------------------------------------------------------
(* The run: the helpers called in any order, then print_results and exit *)

Init ==
    /\ return_code = UNDEFINED_RC
    /\ message_groups = [level \in LevelSet |-> <<>>]
    /\ quiet = FALSE
    /\ performance_data = <<>>
    /\ stdout = <<>>
    /\ exit_code = <<>>
    /\ pc = "checks"
    /\ calls = <<>>
    /\ spec = <<>>
    /\ parsed = NotCalled
    /\ NoRun

CanRecord == pc = "checks" /\ Len(calls) < MaxCalls

Ok ==
    /\ CanRecord
    /\ \E message \in Messages : ok(message)
    /\ UNCHANGED <<quiet, performance_data, stdout, exit_code, pc, spec, parsed, run_vars>>

Warning ==
    /\ CanRecord
    /\ \E message \in Messages : warning(message)
    /\ UNCHANGED <<quiet, performance_data, stdout, exit_code, pc, spec, parsed, run_vars>>

Critical ==
    /\ CanRecord
    /\ \E message \in Messages : critical(message)
    /\ UNCHANGED <<quiet, performance_data, stdout, exit_code, pc, spec, parsed, run_vars>>

Unknown ==
    /\ CanRecord
    /\ \E message \in Messages : unknown(message)
    /\ UNCHANGED <<quiet, performance_data, stdout, exit_code, pc, spec, parsed, run_vars>>

Evaluate ==
    /\ CanRecord
    /\ \E c \in EvalCases : evaluate_numeric_thresholds(c.name, c.value, c.warning_threshold, c.critical_threshold, c.units, c.greater_than)
    /\ UNCHANGED <<quiet, performance_data, stdout, exit_code, pc, spec, parsed, run_vars>>

AddPerformanceData ==
    /\ pc = "checks"
    /\ Len(performance_data) < MaxPerf
    /\ \E c \in PerfCases : add_performance_data(c.name, c.value, c.units, c.warning_threshold, c.critical_threshold, c.lower_limit, c.upper_limit)
    /\ UNCHANGED <<return_code, message_groups, calls, quiet, stdout, exit_code, pc, spec, parsed, run_vars>>

\* quiet = parsed_args.quiet
SetQuiet ==
    /\ pc = "checks"
    /\ \E q \in BOOLEAN : quiet' = q
    /\ UNCHANGED <<return_code, message_groups, calls, performance_data, stdout, exit_code, pc, spec, parsed, run_vars>>

\* print_results()
PrintResults ==
    /\ pc = "checks"
    /\ stdout' = Append(stdout, print_results)
    /\ pc' = "printed"
    /\ UNCHANGED <<return_code, message_groups, calls, quiet, performance_data, exit_code, spec, parsed, run_vars>>

\* exit(get_final_return_code())
Exit ==
    /\ pc = "printed"
    /\ exit_code' = <<get_final_return_code>>
    /\ pc' = "exited"
    /\ UNCHANGED <<return_code, message_groups, calls, quiet, performance_data, stdout, spec, parsed, run_vars>>

Next ==
    \/ Ok
    \/ Warning
    \/ Critical
    \/ Unknown
    \/ Evaluate
    \/ AddPerformanceData
    \/ SetQuiet
    \/ PrintResults
    \/ Exit

Spec == Init /\ [][Next]_vars

---------------------------------------------------------------------------
(* evaluate_numeric_thresholds on every value and threshold of Values *)

EvaluateAny ==
    /\ pc = "checks"
    /\ Len(calls) < MaxEvalCalls
    /\ \E name \in EvalNames, value \in Values, warning_threshold \in Values, critical_threshold \in Values, units \in EvalUnits, greater_than \in BOOLEAN :
           evaluate_numeric_thresholds(name, value, warning_threshold, critical_threshold, units, greater_than)
    /\ UNCHANGED <<quiet, performance_data, stdout, exit_code, pc, spec, parsed, run_vars>>

NextEval ==
    \/ EvaluateAny
    \/ PrintResults
    \/ Exit

SpecEval == Init /\ [][NextEval]_vars

---------------------------------------------------------------------------
(* parse_thresholds on every string of SpecStrings *)

InitParse ==
    /\ return_code = UNDEFINED_RC
    /\ message_groups = [level \in LevelSet |-> <<>>]
    /\ quiet = FALSE
    /\ performance_data = <<>>
    /\ stdout = <<>>
    /\ exit_code = <<>>
    /\ pc = "checks"
    /\ calls = <<>>
    /\ spec \in SpecStrings
    /\ parsed = NotCalled
    /\ NoRun

ParseThresholds ==
    /\ parsed = NotCalled
    /\ parsed' = parse_thresholds(spec)
    /\ UNCHANGED <<return_code, message_groups, calls, quiet, performance_data, stdout, exit_code, pc, spec, run_vars>>

NextParse == ParseThresholds

SpecParse == InitParse /\ [][NextParse]_vars

---------------------------------------------------------------------------
(* print_results after any calls of the helpers: the run starts where calls
   of ok, then warning, then critical, then unknown have filled the lists *)

MessageLists == UNION {[1..n -> Messages] : n \in 0..MaxGroupLen}

\* the calls that record the messages of one level
CallsOfLevel(level, messages) == [i \in 1..Len(messages) |-> <<level, messages[i]>>]

\* the log of the calls that fill the lists of groups
CallsFor(groups) ==
    CallsOfLevel("OK", groups["OK"]) \o CallsOfLevel("WARNING", groups["WARNING"])
        \o CallsOfLevel("CRITICAL", groups["CRITICAL"]) \o CallsOfLevel("UNKNOWN", groups["UNKNOWN"])

\* return_code after those calls
ReturnCodeFor(groups) ==
    IF groups["UNKNOWN"] # <<>> THEN UNKNOWN_RC
    ELSE IF groups["CRITICAL"] # <<>> THEN CRITICAL_RC
    ELSE IF groups["WARNING"] # <<>> THEN WARNING_RC
    ELSE IF groups["OK"] # <<>> THEN OK_RC
    ELSE UNDEFINED_RC

InitRender ==
    /\ message_groups \in [LevelSet -> MessageLists]
    /\ return_code = ReturnCodeFor(message_groups)
    /\ calls = CallsFor(message_groups)
    /\ quiet = FALSE
    /\ performance_data = <<>>
    /\ stdout = <<>>
    /\ exit_code = <<>>
    /\ pc = "checks"
    /\ spec = <<>>
    /\ parsed = NotCalled
    /\ NoRun

NextRender ==
    \/ SetQuiet
    \/ AddPerformanceData
    \/ PrintResults
    \/ Exit

SpecRender == InitRender /\ [][NextRender]_vars

---------------------------------------------------------------------------
(* add_performance_data with each optional argument given or left out *)

\* the arguments of the test, each optional one also left at its default
PerfNames == {"name"}
PerfValues == {1}
PerfUnits == {"", "x"}
PerfWarnings == {Absent, Given(2)}
PerfCriticals == {Absent, Given(3)}
PerfLowerLimits == {Absent, Given(0)}
PerfUpperLimits == {Absent, Given(5)}

\* a run that has recorded nothing, or one OK message
InitPerf ==
    /\ message_groups \in {[level \in LevelSet |-> <<>>],
                           [level \in LevelSet |-> IF level = "OK" THEN <<"test">> ELSE <<>>]}
    /\ return_code = ReturnCodeFor(message_groups)
    /\ calls = CallsFor(message_groups)
    /\ quiet = FALSE
    /\ performance_data = <<>>
    /\ stdout = <<>>
    /\ exit_code = <<>>
    /\ pc = "checks"
    /\ spec = <<>>
    /\ parsed = NotCalled
    /\ NoRun

AddPerformanceDataAny ==
    /\ pc = "checks"
    /\ Len(performance_data) < MaxPerfCalls
    /\ \E name \in PerfNames, value \in PerfValues, units \in PerfUnits, warning_threshold \in PerfWarnings, critical_threshold \in PerfCriticals, lower_limit \in PerfLowerLimits, upper_limit \in PerfUpperLimits :
           add_performance_data(name, value, units, warning_threshold, critical_threshold, lower_limit, upper_limit)
    /\ UNCHANGED <<return_code, message_groups, calls, quiet, stdout, exit_code, pc, spec, parsed, run_vars>>

NextPerf ==
    \/ AddPerformanceDataAny
    \/ PrintResults
    \/ Exit

SpecPerf == InitPerf /\ [][NextPerf]_vars

---------------------------------------------------------------------------
(* perform_checks, statement by statement, then print_results and exit *)

\* the current second of the test (02:32:05 AM) and one that is not prime
Seconds == {5, 4}

\* get_second() returns the second, or raises: the KeyError of a reply
\* without the key 'time'
GetSecondOutcomes == {Returned(s) : s \in Seconds} \cup {Raised("KeyError", "time")}

\* --good left at its default, and --good 5 as in the test
GoodLists == {<<PyStr("all")>>, <<PyInt(5)>>}

\* --above_range and --below_range: absent, the 0:0 of the test, thresholds
\* on both sides of the second, and one specification for each error of
\* parse_thresholds
RangeSpecs ==
    { <<>>,
      <<"0", ":", "0">>,
      <<"1", "0", ":", "0">>,
      <<"0", ":", "1", "0">>,
      <<"1", "0", ":", "1", "0">>,
      <<"x", ":", "1">>,
      <<"1", ":", "x">>,
      <<"0", ":", ":", "0">>,
      <<"0">>,
      <<"0", ":", "0", ":", "0", ":", "0">> }

\* the options process_args can return
RunArgs ==
    [validate : BOOLEAN, quiet : BOOLEAN, good : GoodLists, prime : BOOLEAN,
     range_above : RangeSpecs, range_below : RangeSpecs]

\* the check a test replaces by a mock that raises Exception
SideEffects == {"none", "check_good", "check_prime", "check_range_above", "check_range_below"}

PRIME_SECONDS == {2, 3, 5, 7, 11, 13, 17, 19, 23, 29, 31, 37, 41, 43, 47, 53, 59}

\* repr(e) of the exception parse_thresholds(range_spec) raised
repr_raised(e, range_spec) ==
    LET parts == split(range_spec)
        literal == IF ~int_accepts(parts[1]) THEN parts[1] ELSE parts[2]
    IN CASE e[3] = "BlankSegment" ->
              "ValueError('Blanks are not allowed in a threshold specification: "
                  \o join("", range_spec) \o "')"
         [] e[3] = "NotNumeric" ->
              "ValueError(\"invalid literal for int() with base 10: '"
                  \o join("", literal) \o "'\")"
         [] e[3] = "TooFewThresholds" ->
              "IndexError('Too few thresholds specified, there must be at least two')"
         [] e[3] = "TooManyThresholds" ->
              "ValueError('Too many threshold specifiers in " \o join("", range_spec) \o "')"

\* the except clause that only leaves perform_checks
except_pass(repr_e) ==
    /\ pc' = "checks"
    /\ UNCHANGED <<return_code, message_groups, calls>>

\* except Exception as e: the UNKNOWN message, then the end of perform_checks
except(repr_e) ==
    /\ unknown("We got the following error " \o repr_e)
    /\ pc' = "checks"

check_good(second, good_seconds) ==
    IF \E i \in 1..Len(good_seconds) : good_seconds[i] = PyStr("all")
    THEN ok("It is all good")
    ELSE IF \E i \in 1..Len(good_seconds) : good_seconds[i] = PyInt(second)
         THEN ok(ToString(second) \o " is good")
         ELSE critical(ToString(second) \o " is a bad second!")

check_prime(second) ==
    IF second \in PRIME_SECONDS
    THEN ok(ToString(second) \o " is prime")
    ELSE critical(ToString(second) \o " is not prime")

\* check_range_above when parse_thresholds(range_spec) returns
check_range_above(second, range_spec) ==
    LET thresholds == parse_thresholds(range_spec)[2]
    IN evaluate_numeric_thresholds("seconds above", second, thresholds[1][2], thresholds[2][2], "s", FALSE)

\* check_range_below when parse_thresholds(range_spec) returns
check_range_below(second, range_spec) ==
    LET thresholds == parse_thresholds(range_spec)[2]
    IN evaluate_numeric_thresholds("seconds below", second, thresholds[1][2], thresholds[2][2], "s", TRUE)

\* a process that starts perform_checks
InitRun ==
    /\ return_code = UNDEFINED_RC
    /\ message_groups = [level \in LevelSet |-> <<>>]
    /\ quiet = FALSE
    /\ performance_data = <<>>
    /\ stdout = <<>>
    /\ exit_code = <<>>
    /\ pc = "get_second"
    /\ calls = <<>>
    /\ spec = <<>>
    /\ parsed = NotCalled
    /\ parsed_args \in RunArgs
    /\ current_second = NotCalled
    /\ supports_tls_context \in BOOLEAN
    /\ tls_context = "None"
    /\ side_effect \in SideEffects

\* current_second = get_second()
GetSecond ==
    /\ pc = "get_second"
    /\ \E outcome \in GetSecondOutcomes :
          /\ current_second' = outcome
          /\ IF outcome[1] = "raised"
             THEN except(outcome[2] \o "('" \o outcome[3] \o "')")
             ELSE /\ pc' = "add_performance_data"
                  /\ UNCHANGED <<return_code, message_groups, calls>>
    /\ UNCHANGED <<quiet, performance_data, stdout, exit_code, spec, parsed, parsed_args, supports_tls_context, tls_context, side_effect>>

\* add_performance_data(name='current second', ...)
AddSecondPerformanceData ==
    /\ pc = "add_performance_data"
    /\ add_performance_data("current second", current_second[2], "s", Absent, Absent, Given(0), Given(59))
    /\ pc' = "validate"
    /\ UNCHANGED <<return_code, message_groups, calls, quiet, stdout, exit_code, spec, parsed, run_vars>>

\* if not parsed_args.validate: ...; quiet = parsed_args.quiet
Validate ==
    /\ pc = "validate"
    /\ IF ~parsed_args.validate /\ ~supports_tls_context
       THEN /\ except("NotImplementedError('Disabling TLS validation is not supported in python versions below 2.7.9')")
            /\ UNCHANGED <<quiet, tls_context>>
       ELSE /\ tls_context' = (IF ~parsed_args.validate THEN "context" ELSE tls_context)
            /\ quiet' = parsed_args.quiet
            /\ pc' = "check_good"
            /\ UNCHANGED <<return_code, message_groups, calls>>
    /\ UNCHANGED <<performance_data, stdout, exit_code, spec, parsed, parsed_args, current_second, supports_tls_context, side_effect>>

\* if parsed_args.good: check_good(...)
CheckGood ==
    /\ pc = "check_good"
    /\ IF Len(parsed_args.good) = 0
       THEN pc' = "check_prime" /\ UNCHANGED <<return_code, message_groups, calls>>
       ELSE IF side_effect = "check_good"
       THEN except("Exception()")
       ELSE check_good(current_second[2], parsed_args.good) /\ pc' = "check_prime"
    /\ UNCHANGED <<quiet, performance_data, stdout, exit_code, spec, parsed, run_vars>>

\* if parsed_args.prime: check_prime(...)
CheckPrime ==
    /\ pc = "check_prime"
    /\ IF ~parsed_args.prime
       THEN pc' = "check_range_above" /\ UNCHANGED <<return_code, message_groups, calls>>
       ELSE IF side_effect = "check_prime"
       THEN except("Exception()")
       ELSE check_prime(current_second[2]) /\ pc' = "check_range_above"
    /\ UNCHANGED <<quiet, performance_data, stdout, exit_code, spec, parsed, run_vars>>

\* if parsed_args.range_above: check_range_above(...)
CheckRangeAbove ==
    /\ pc = "check_range_above"
    /\ IF Len(parsed_args.range_above) = 0
       THEN pc' = "check_range_below" /\ UNCHANGED <<return_code, message_groups, calls>>
       ELSE IF side_effect = "check_range_above"
       THEN except("Exception()")
       ELSE IF parse_thresholds(parsed_args.range_above)[1] = "raised"
       THEN except(repr_raised(parse_thresholds(parsed_args.range_above), parsed_args.range_above))
       ELSE check_range_above(current_second[2], parsed_args.range_above) /\ pc' = "check_range_below"
    /\ UNCHANGED <<quiet, performance_data, stdout, exit_code, spec, parsed, run_vars>>

\* if parsed_args.range_below: check_range_below(...), the last statement
CheckRangeBelow ==
    /\ pc = "check_range_below"
    /\ IF Len(parsed_args.range_below) = 0
       THEN pc' = "checks" /\ UNCHANGED <<return_code, message_groups, calls>>
       ELSE IF side_effect = "check_range_below"
       THEN except("Exception()")
       ELSE IF parse_thresholds(parsed_args.range_below)[1] = "raised"
       THEN except(repr_raised(parse_thresholds(parsed_args.range_below), parsed_args.range_below))
       ELSE check_range_below(current_second[2], parsed_args.range_below) /\ pc' = "checks"
    /\ UNCHANGED <<quiet, performance_data, stdout, exit_code, spec, parsed, run_vars>>

NextRun ==
    \/ GetSecond
    \/ AddSecondPerformanceData
    \/ Validate
    \/ CheckGood
    \/ CheckPrime
    \/ CheckRangeAbove
    \/ CheckRangeBelow
    \/ PrintResults
    \/ Exit

SpecRun == InitRun /\ [][NextRun]_vars

---------------------------------------------------------------------------
(* What the log of calls says was recorded *)

\* the ranks of the severities recorded so far
RecordedRanks == {RankOf(calls[i][1]) : i \in 1..Len(calls)}

\* the highest of them
MaxRecordedRank == CHOOSE r \in RecordedRanks : \A x \in RecordedRanks : x <= r

\* the messages recorded with a severity, in call order
RECURSIVE RecordedMessages(_, _)
RecordedMessages(level, n) ==
    IF n = 0 THEN <<>>
    ELSE IF calls[n][1] = level
         THEN Append(RecordedMessages(level, n - 1), calls[n][2])
         ELSE RecordedMessages(level, n - 1)

\* strings joined by sep, built from the left
RECURSIVE JoinLeft(_, _, _)
JoinLeft(sep, strings, n) ==
    IF n = 0 THEN ""
    ELSE IF n = 1 THEN strings[1]
    ELSE JoinLeft(sep, strings, n - 1) \o sep \o strings[n]

\* the block of a severity: its name, ": ", its recorded messages joined by ", "
RefBlock(level) ==
    LET messages == RecordedMessages(level, Len(calls))
    IN level \o ": " \o JoinLeft(", ", messages, Len(messages))

\* a severity has a block in the line
RefShown(level) ==
    /\ RecordedMessages(level, Len(calls)) # <<>>
    /\ ~(quiet /\ level = "OK")

\* the metric section of the line
RefPerfSection ==
    IF performance_data = <<>> THEN ""
    ELSE "|" \o JoinLeft(" ", performance_data, Len(performance_data))

---------------------------------------------------------------------------
(* C1 *)

\* C1: after one or more calls of ok/warning/critical/unknown, in whatever
\* order, get_final_return_code returns the highest rank among the recorded
\* severities (OK=0 < WARNING=1 < CRITICAL=2 < UNKNOWN=3).
C1_FinalIsMaxRecorded ==
    Len(calls) > 0 => get_final_return_code = MaxRecordedRank

\* a lower severity recorded after a higher one, and a third call
C1_Witness ==
    /\ Len(calls) = 3
    /\ calls[1][1] = "WARNING"
    /\ calls[2][1] = "CRITICAL"
    /\ calls[3][1] = "OK"
    /\ get_final_return_code = CRITICAL_RC

---------------------------------------------------------------------------
(* C2 *)

\* C2: no step of a run lowers return_code, and a call that records a
\* severity ranked no higher than return_code leaves return_code unchanged.
C2_RankNeverDecreases ==
    [][ /\ return_code' >= return_code
        /\ (/\ Len(calls') = Len(calls) + 1
            /\ RankOf(calls'[Len(calls')][1]) <= return_code)
           => return_code' = return_code ]_vars

\* a lower severity was recorded after a higher one, a metric was added and
\* the line was printed, and the rank is still the higher one
C2_Witness ==
    /\ Len(calls) >= 2
    /\ RankOf(calls[2][1]) < RankOf(calls[1][1])
    /\ performance_data # <<>>
    /\ pc = "exited"
    /\ return_code = RankOf(calls[1][1])

---------------------------------------------------------------------------
(* C3 *)

\* C3: get_final_return_code returns UNKNOWN (3) while nothing was recorded,
\* its result is always one of 0, 1, 2, 3, and so is the exit code; the
\* sentinel -1 is never returned.
C3_FinalCodeIsValid ==
    /\ Len(calls) = 0 => get_final_return_code = UNKNOWN_RC
    /\ get_final_return_code \in {OK_RC, WARNING_RC, CRITICAL_RC, UNKNOWN_RC}
    /\ get_final_return_code # UNDEFINED_RC
    /\ exit_code # <<>> =>
           exit_code[1] \in {OK_RC, WARNING_RC, CRITICAL_RC, UNKNOWN_RC}

\* a run that recorded nothing and exited with 3
C3_Witness ==
    /\ pc = "exited"
    /\ calls = <<>>
    /\ return_code = UNDEFINED_RC
    /\ exit_code = <<UNKNOWN_RC>>

---------------------------------------------------------------------------
(* C4 *)

\* C4: the list of each category is exactly the messages recorded with that
\* severity, in call order, duplicates kept; so a call appends its message
\* to its own category and leaves the three other lists as they were.
C4_ListsAreRecordedMessages ==
    \A level \in LevelSet :
        message_groups[level] = RecordedMessages(level, Len(calls))

\* two different messages and a duplicate in one category
C4_Witness ==
    /\ calls = << <<"WARNING", "test_ok">>, <<"WARNING", "test">>, <<"WARNING", "test_ok">> >>
    /\ message_groups["WARNING"] = <<"test_ok", "test", "test_ok">>
    /\ message_groups["OK"] = <<>>

---------------------------------------------------------------------------
(* C5 *)

\* C5: when a CRITICAL was recorded and an UNKNOWN was recorded after it,
\* get_final_return_code returns 3 and the process exits with 3, and the
\* printed line starts with the UNKNOWN block followed by "; " and the
\* CRITICAL block, which holds every CRITICAL message recorded.
C5_UnknownOverridesCritical ==
    (\E i, j \in 1..Len(calls) : i < j /\ calls[i][1] = "CRITICAL" /\ calls[j][1] = "UNKNOWN")
    => /\ get_final_return_code = UNKNOWN_RC
       /\ exit_code # <<>> => exit_code = <<UNKNOWN_RC>>
       /\ stdout # <<>> =>
              stdout[1] = RefBlock("UNKNOWN") \o "; " \o RefBlock("CRITICAL")
                              \o (IF RefShown("WARNING") THEN "; " \o RefBlock("WARNING") ELSE "")
                              \o (IF RefShown("OK") THEN "; " \o RefBlock("OK") ELSE "")
                              \o RefPerfSection

\* CRITICAL then UNKNOWN, printed and exited
C5_Witness ==
    /\ calls = << <<"CRITICAL", "test">>, <<"UNKNOWN", "test_ok">> >>
    /\ stdout = <<"UNKNOWN: test_ok; CRITICAL: test">>
    /\ exit_code = <<3>>

---------------------------------------------------------------------------
(* C6 *)

\* the severity the rule gives a value: CRITICAL at or beyond critical,
\* else WARNING at or beyond warning, else OK
RefSeverity(value, warning_threshold, critical_threshold, greater_than) ==
    CASE greater_than /\ value >= critical_threshold -> "CRITICAL"
      [] greater_than /\ value < critical_threshold /\ value >= warning_threshold -> "WARNING"
      [] greater_than /\ value < critical_threshold /\ value < warning_threshold -> "OK"
      [] ~greater_than /\ value <= critical_threshold -> "CRITICAL"
      [] ~greater_than /\ value > critical_threshold /\ value <= warning_threshold -> "WARNING"
      [] ~greater_than /\ value > critical_threshold /\ value > warning_threshold -> "OK"

\* the message of the rule
RefMessage(name, value, warning_threshold, critical_threshold, units, greater_than) ==
    LET severity == RefSeverity(value, warning_threshold, critical_threshold, greater_than)
        rel == IF greater_than THEN ">" ELSE "<"
        crossed == IF severity = "CRITICAL" THEN critical_threshold ELSE warning_threshold
        measured == name \o " " \o ToString(value) \o units
    IN IF severity = "OK" THEN measured
       ELSE measured \o rel \o ToString(crossed) \o units

\* C6: evaluate_numeric_thresholds records every value under the severity of
\* the rule (boundaries inclusive, in both directions) with the message of
\* the rule: "{name} {value}{units}" for OK, and
\* "{name} {value}{units}{rel}{threshold}{units}" otherwise, rel being '>'
\* for above and '<' for below and threshold the threshold crossed.
C6_EvaluateFollowsRule ==
    [][ \A name \in EvalNames, value \in Values, warning_threshold \in Values, critical_threshold \in Values, units \in EvalUnits, greater_than \in BOOLEAN :
            evaluate_numeric_thresholds(name, value, warning_threshold, critical_threshold, units, greater_than)
            => LET severity == RefSeverity(value, warning_threshold, critical_threshold, greater_than)
                   message == RefMessage(name, value, warning_threshold, critical_threshold, units, greater_than)
               IN /\ calls' = Append(calls, <<severity, message>>)
                  /\ message_groups' = [message_groups EXCEPT ![severity] = Append(@, message)] ]_vars

\* a value equal to its warning threshold was recorded as WARNING, printed
C6_Witness ==
    /\ calls = << <<"WARNING", "test 2x<2x">> >>
    /\ message_groups["WARNING"] = <<"test 2x<2x">>
    /\ stdout = <<"WARNING: test 2x<2x">>

---------------------------------------------------------------------------
(* C7 *)

\* C7 as claimed: a call of evaluate_numeric_thresholds leaves return_code,
\* the four message lists and the metric sequence unchanged.
C7_EvaluateIsPure ==
    [][ Evaluate => UNCHANGED <<return_code, message_groups, performance_data>> ]_vars

\* C7 as amended: a call of evaluate_numeric_thresholds records its result
\* itself: it appends one message to the list of exactly one of OK, WARNING
\* and CRITICAL, raises return_code to the rank of that category when it is
\* lower, and leaves the three other lists, the metric sequence, quiet and
\* the output unchanged.
C7_EvaluateRecordsOnce ==
    [][ Evaluate =>
          /\ \E level \in {"OK", "WARNING", "CRITICAL"} :
                /\ Len(message_groups'[level]) = Len(message_groups[level]) + 1
                /\ SubSeq(message_groups'[level], 1, Len(message_groups[level])) = message_groups[level]
                /\ \A other \in LevelSet \ {level} : message_groups'[other] = message_groups[other]
                /\ return_code' = (IF RankOf(level) > return_code THEN RankOf(level) ELSE return_code)
          /\ UNCHANGED <<performance_data, quiet, stdout, exit_code>> ]_vars

\* an evaluation recorded after an UNKNOWN and a metric
C7_Witness ==
    /\ calls = << <<"UNKNOWN", "test">>, <<"CRITICAL", "test 3x>2x">> >>
    /\ message_groups["CRITICAL"] = <<"test 3x>2x">>
    /\ performance_data = <<"'name'=1x;2;3;0;5;">>
    /\ return_code = UNKNOWN_RC

---------------------------------------------------------------------------
(* What a threshold specification is, read off the characters *)

\* text is an integer literal: digits, after an optional sign
IsLiteral(text) ==
    \E signs \in {0, 1} :
        /\ Len(text) > signs
        /\ signs = 1 => text[1] = "-"
        /\ \A i \in (signs + 1)..Len(text) : text[i] \in {"0", "1", "2", "3", "4", "5", "6", "7", "8", "9"}

RECURSIVE Pow10(_)
Pow10(n) == IF n = 0 THEN 1 ELSE 10 * Pow10(n - 1)

\* the sum of the digits' values from position i on, each times its power of ten
RECURSIVE PlaceValues(_, _)
PlaceValues(text, i) ==
    IF i > Len(text) THEN 0
    ELSE LET d == CHOOSE n \in 0..9 : ToString(n) = text[i]
         IN d * Pow10(Len(text) - i) + PlaceValues(text, i + 1)

\* the integer a literal denotes
LiteralValue(text) ==
    IF text[1] = "-" THEN 0 - PlaceValues(text, 2) ELSE PlaceValues(text, 1)

HasNoColon(text) == \A i \in 1..Len(text) : text[i] # ":"

\* some segment between the separators is empty
HasBlankSegment(text) ==
    \/ text = <<>>
    \/ text[1] = ":"
    \/ text[Len(text)] = ":"
    \/ \E i \in 1..(Len(text) - 1) : text[i] = ":" /\ text[i + 1] = ":"

---------------------------------------------------------------------------
(* C8 *)

\* C8: for a spec W:C or W:C:U with W and C integer literals and U non-empty,
\* parse_thresholds returns [W as an int, C as an int, U as a str], and None
\* in place of U, not '', when there is no third segment.
C8_ParseReturnsThresholds ==
    parsed # NotCalled =>
        \A i \in 1..Len(spec) :
            LET W == SubSeq(spec, 1, i - 1)
                rest == SubSeq(spec, i + 1, Len(spec))
            IN (spec[i] = ":" /\ IsLiteral(W)) =>
                 /\ IsLiteral(rest) =>
                        parsed = Returned(<<PyInt(LiteralValue(W)), PyInt(LiteralValue(rest)), PyNone>>)
                 /\ \A j \in (i + 1)..Len(spec) :
                        LET C == SubSeq(spec, i + 1, j - 1)
                            U == SubSeq(spec, j + 1, Len(spec))
                        IN (spec[j] = ":" /\ IsLiteral(C) /\ U # <<>> /\ HasNoColon(U)) =>
                               parsed = Returned(<<PyInt(LiteralValue(W)), PyInt(LiteralValue(C)), PyStr(U)>>)

\* "-1:10:1": a negative warning, a two-digit critical, units that look numeric
C8_Witness ==
    /\ spec = <<"-", "1", ":", "1", "0", ":", "1">>
    /\ parsed = Returned(<<PyInt(-1), PyInt(10), PyStr(<<"1">>)>>)

---------------------------------------------------------------------------
(* C9 *)

\* C9: parse_thresholds fails with BlankSegment for every spec with an empty
\* segment, whatever the number and the content of the other segments.
C9_BlankSegmentFirst ==
    (parsed # NotCalled /\ HasBlankSegment(spec)) =>
        parsed = Raised("ValueError", "BlankSegment")

\* "x:0:0:": a non-numeric first segment, four segments, the last one empty
C9_Witness ==
    /\ spec = <<"x", ":", "0", ":", "0", ":">>
    /\ parsed = Raised("ValueError", "BlankSegment")

---------------------------------------------------------------------------
(* C10 *)

\* C10 as claimed: parse_thresholds fails with TooFewThresholds for every
\* single non-empty segment, numeric or not.
C10_SingleSegmentTooFew ==
    (parsed # NotCalled /\ spec # <<>> /\ HasNoColon(spec)) =>
        parsed = Raised("IndexError", "TooFewThresholds")

\* C10 as amended: parse_thresholds fails with TooFewThresholds for every
\* single non-empty segment that is an integer literal, and with NotNumeric
\* for every single non-empty segment that is not.
C10_SingleSegmentTooFewIfNumeric ==
    (parsed # NotCalled /\ spec # <<>> /\ HasNoColon(spec)) =>
        parsed = IF IsLiteral(spec)
                 THEN Raised("IndexError", "TooFewThresholds")
                 ELSE Raised("ValueError", "NotNumeric")

\* "-10": one numeric segment
C10_Witness ==
    /\ spec = <<"-", "1", "0">>
    /\ parsed = Raised("IndexError", "TooFewThresholds")

---------------------------------------------------------------------------
(* The segments of a specification, read off the positions of the colons *)

Colons(text) == {i \in 1..Len(text) : text[i] = ":"}

\* the number of segments
SegmentCount(text) == Cardinality(Colons(text)) + 1

\* the position of the k-th colon
ColonAt(text, k) ==
    CHOOSE i \in Colons(text) : Cardinality({j \in Colons(text) : j < i}) = k - 1

\* the n-th segment, for n in 1..SegmentCount(text)
RefSegment(text, n) ==
    SubSeq(text,
           IF n = 1 THEN 1 ELSE ColonAt(text, n - 1) + 1,
           IF n = SegmentCount(text) THEN Len(text) ELSE ColonAt(text, n) - 1)

---------------------------------------------------------------------------
(* C11 *)

\* C11: for every spec with more than 3 segments, none of them blank, whose
\* first two segments are integers, parse_thresholds fails with
\* TooManyThresholds and returns nothing, whatever the third and the later
\* segments hold.
C11_TooManySegments ==
    (/\ parsed # NotCalled
     /\ ~HasBlankSegment(spec)
     /\ SegmentCount(spec) > 3
     /\ IsLiteral(RefSegment(spec, 1))
     /\ IsLiteral(RefSegment(spec, 2)))
    => parsed = Raised("ValueError", "TooManyThresholds")

\* "0:1:x:-": four segments, the last two not numeric
C11_Witness ==
    /\ spec = <<"0", ":", "1", ":", "x", ":", "-">>
    /\ parsed = Raised("ValueError", "TooManyThresholds")

---------------------------------------------------------------------------
(* C12 *)

\* C12: for a spec with 2 or 3 segments, none of them blank, parse_thresholds
\* fails with NotNumeric exactly when the first or the second segment is not
\* an integer literal; the third segment never makes it fail so.
C12_NotNumericIffFirstTwo ==
    (/\ parsed # NotCalled
     /\ ~HasBlankSegment(spec)
     /\ SegmentCount(spec) \in {2, 3})
    => (parsed = Raised("ValueError", "NotNumeric")
        <=> ~(IsLiteral(RefSegment(spec, 1)) /\ IsLiteral(RefSegment(spec, 2))))

\* "1:x": the second segment is not numeric
C12_Witness ==
    /\ spec = <<"1", ":", "x">>
    /\ parsed = Raised("ValueError", "NotNumeric")

---------------------------------------------------------------------------
(* C13 *)

\* the blocks of the categories shown, in the order UNKNOWN, CRITICAL,
\* WARNING, OK
RefBlocks ==
    (IF RefShown("UNKNOWN") THEN <<RefBlock("UNKNOWN")>> ELSE <<>>)
        \o (IF RefShown("CRITICAL") THEN <<RefBlock("CRITICAL")>> ELSE <<>>)
        \o (IF RefShown("WARNING") THEN <<RefBlock("WARNING")>> ELSE <<>>)
        \o (IF RefShown("OK") THEN <<RefBlock("OK")>> ELSE <<>>)

\* C13: the line print_results prints holds one block for each category with
\* a message, none for an empty category and none for OK when quiet is true,
\* in the order UNKNOWN, CRITICAL, WARNING, OK whatever return_code is and
\* whatever the order of the calls was; a block is the category, ": " and
\* its messages joined by ", "; the blocks are joined by "; ".
C13_LineIsBlocksInFixedOrder ==
    stdout # <<>> =>
        stdout[1] = JoinLeft("; ", RefBlocks, Len(RefBlocks)) \o RefPerfSection

\* the four categories, recorded in the order OK, WARNING, CRITICAL, UNKNOWN
C13_Witness ==
    /\ calls = << <<"OK", "test_ok">>, <<"OK", "test">>, <<"WARNING", "test">>,
                  <<"CRITICAL", "test">>, <<"UNKNOWN", "test">>, <<"UNKNOWN", "test_ok">> >>
    /\ quiet = FALSE
    /\ stdout = <<"UNKNOWN: test, test_ok; CRITICAL: test; WARNING: test; OK: test_ok, test">>

---------------------------------------------------------------------------
(* C14 *)

\* an optional field as text: nothing when it is absent
RefField(arg) == IF arg = Absent THEN "" ELSE ToString(arg[1])

\* the record of a metric: the quoted name, "=", the value and its units,
\* then the four optional fields, each closed by a semicolon
RefRecord(name, value, units, warning_threshold, critical_threshold, lower_limit, upper_limit) ==
    LET fields == <<ToString(value) \o units, RefField(warning_threshold), RefField(critical_threshold),
                    RefField(lower_limit), RefField(upper_limit)>>
    IN "'" \o name \o "'=" \o JoinLeft(";", fields, Len(fields)) \o ";"

\* C14: add_performance_data appends exactly one record
\* "'{name}'={value}{units};{warning};{critical};{min};{max};" at the end of
\* performance_data, an absent field being empty between its semicolons; no
\* step removes, reorders or merges records; print_results prints "|" and
\* the records joined by single spaces, in call order, after the summary if
\* and only if there is a record.
C14_MetricsAppendedAndPrinted ==
    [][ /\ \A name \in PerfNames, value \in PerfValues, units \in PerfUnits, warning_threshold \in PerfWarnings, critical_threshold \in PerfCriticals, lower_limit \in PerfLowerLimits, upper_limit \in PerfUpperLimits :
              add_performance_data(name, value, units, warning_threshold, critical_threshold, lower_limit, upper_limit)
              => performance_data' = Append(performance_data, RefRecord(name, value, units, warning_threshold, critical_threshold, lower_limit, upper_limit))
        /\ \/ performance_data' = performance_data
           \/ /\ Len(performance_data') = Len(performance_data) + 1
              /\ SubSeq(performance_data', 1, Len(performance_data)) = performance_data
        /\ PrintResults =>
              stdout' = << JoinLeft("; ", RefBlocks, Len(RefBlocks))
                             \o (IF Len(performance_data) = 0 THEN ""
                                 ELSE "|" \o JoinLeft(" ", performance_data, Len(performance_data))) >> ]_vars

\* two records, the second with every optional field absent, printed after
\* the summary
C14_Witness ==
    /\ performance_data = <<"'name'=1x;2;3;0;5;", "'name'=1;;;;;">>
    /\ stdout = <<"OK: test|'name'=1x;2;3;0;5; 'name'=1;;;;;">>

---------------------------------------------------------------------------
(* C15 *)

\* perform_checks is over
RunOver == pc \in {"checks", "printed", "exited"}

\* the statements of perform_checks, in order
RunOrder ==
    <<"get_second", "add_performance_data", "validate", "check_good",
      "check_prime", "check_range_above", "check_range_below">>

\* a threshold specification parse_thresholds accepts
RefWellFormed(text) ==
    /\ SegmentCount(text) \in {2, 3}
    /\ ~HasBlankSegment(text)
    /\ IsLiteral(RefSegment(text, 1))
    /\ IsLiteral(RefSegment(text, 2))

\* the check is asked for by the options
RefAsked(step) ==
    CASE step = "check_good" -> parsed_args.good # <<>>
      [] step = "check_prime" -> parsed_args.prime
      [] step = "check_range_above" -> parsed_args.range_above # <<>>
      [] step = "check_range_below" -> parsed_args.range_below # <<>>
      [] OTHER -> TRUE

\* the statement fails when it is reached: the fetch raised, validation is
\* off without TLS context support, the check is the one that raises, or
\* its threshold specification is not well formed
RefFails(step) ==
    CASE step = "get_second" -> current_second[1] = "raised"
      [] step = "add_performance_data" -> FALSE
      [] step = "validate" -> ~parsed_args.validate /\ ~supports_tls_context
      [] step = "check_good" -> RefAsked(step) /\ side_effect = step
      [] step = "check_prime" -> RefAsked(step) /\ side_effect = step
      [] step = "check_range_above" ->
            RefAsked(step) /\ (side_effect = step \/ ~RefWellFormed(parsed_args.range_above))
      [] step = "check_range_below" ->
            RefAsked(step) /\ (side_effect = step \/ ~RefWellFormed(parsed_args.range_below))

\* the position in RunOrder of the first statement that fails, 0 if none
FirstFailure ==
    IF \E k \in 1..Len(RunOrder) : RefFails(RunOrder[k])
    THEN CHOOSE k \in 1..Len(RunOrder) :
            RefFails(RunOrder[k]) /\ \A j \in 1..(k - 1) : ~RefFails(RunOrder[j])
    ELSE 0

\* what a range check records for a well-formed specification
RefRangeCall(name, text, greater_than) ==
    LET second == current_second[2]
        w == LiteralValue(RefSegment(text, 1))
        c == LiteralValue(RefSegment(text, 2))
    IN <<RefSeverity(second, w, c, greater_than), RefMessage(name, second, w, c, "s", greater_than)>>

\* what a statement that completes records: one message for a check that
\* is asked for, nothing otherwise
RefCallsOf(step) ==
    LET second == current_second[2]
    IN IF ~RefAsked(step) THEN <<>>
       ELSE CASE step = "check_good" ->
                   IF parsed_args.good = <<PyStr("all")>>
                   THEN << <<"OK", "It is all good">> >>
                   ELSE IF parsed_args.good = <<PyInt(second)>>
                   THEN << <<"OK", ToString(second) \o " is good">> >>
                   ELSE << <<"CRITICAL", ToString(second) \o " is a bad second!">> >>
              [] step = "check_prime" ->
                   IF second > 1 /\ \A d \in 2..(second - 1) : second % d # 0
                   THEN << <<"OK", ToString(second) \o " is prime">> >>
                   ELSE << <<"CRITICAL", ToString(second) \o " is not prime">> >>
              [] step = "check_range_above" ->
                   <<RefRangeCall("seconds above", parsed_args.range_above, FALSE)>>
              [] step = "check_range_below" ->
                   <<RefRangeCall("seconds below", parsed_args.range_below, TRUE)>>
              [] OTHER -> <<>>

\* what the statements before position k record
RECURSIVE RefCallsBefore(_)
RefCallsBefore(k) ==
    IF k <= 1 THEN <<>> ELSE RefCallsBefore(k - 1) \o RefCallsOf(RunOrder[k - 1])

\* the metric of the current second
RefSecondMetric == "'current second'=" \o ToString(current_second[2]) \o "s;;;0;59;"

\* the blocks of all the categories that hold a message, in the order
\* UNKNOWN, CRITICAL, WARNING, OK
RefAllBlocks ==
    (IF message_groups["UNKNOWN"] # <<>> THEN <<RefBlock("UNKNOWN")>> ELSE <<>>)
        \o (IF message_groups["CRITICAL"] # <<>> THEN <<RefBlock("CRITICAL")>> ELSE <<>>)
        \o (IF message_groups["WARNING"] # <<>> THEN <<RefBlock("WARNING")>> ELSE <<>>)
        \o (IF message_groups["OK"] # <<>> THEN <<RefBlock("OK")>> ELSE <<>>)

\* after a failure: one UNKNOWN message, recorded last, after the messages
\* of the statements before the failing one and nothing of a later check;
\* the lists hold these messages and the metric is there if the fetch
\* succeeded; the exit code is 3
RefAborted ==
    /\ Len(message_groups["UNKNOWN"]) = 1
    /\ calls = Append(RefCallsBefore(FirstFailure), <<"UNKNOWN", message_groups["UNKNOWN"][1]>>)
    /\ \A level \in LevelSet : message_groups[level] = RecordedMessages(level, Len(calls))
    /\ performance_data = (IF FirstFailure > 1 THEN <<RefSecondMetric>> ELSE <<>>)
    /\ return_code = UNKNOWN_RC
    /\ pc = "exited" => exit_code = <<UNKNOWN_RC>>

\* C15 as claimed: when a statement of perform_checks fails, exactly one
\* UNKNOWN message is recorded, no later check is executed, the messages and
\* the metric recorded before the failure are unchanged and all of them are
\* in the printed line, and the exit code is 3.
C15_FailureAbortsAllRendered ==
    (RunOver /\ FirstFailure # 0) =>
        /\ RefAborted
        /\ stdout # <<>> =>
              stdout = <<JoinLeft("; ", RefAllBlocks, Len(RefAllBlocks)) \o RefPerfSection>>

\* C15 as amended: when a statement of perform_checks fails, exactly one
\* UNKNOWN message is recorded, no later check is executed, the messages and
\* the metric recorded before the failure are unchanged, and the exit code
\* is 3; the printed line holds the metric and the messages recorded before
\* the failure, except the OK messages when quiet is true: a failure after
\* quiet = parsed_args.quiet with --quiet leaves the OK messages of the
\* completed checks out of the line.
C15_FailureAbortsRenderedUnlessQuietOk ==
    (RunOver /\ FirstFailure # 0) =>
        /\ RefAborted
        /\ (FirstFailure <= 3 => quiet = FALSE)
        /\ stdout # <<>> =>
              stdout = <<JoinLeft("; ", RefBlocks, Len(RefBlocks)) \o RefPerfSection>>

\* --quiet --above_range x:1: check_good has recorded OK, then the parse
\* fails; the line holds the UNKNOWN message and the metric, not the OK one
C15_Witness ==
    /\ quiet = TRUE
    /\ calls = << <<"OK", "It is all good">>,
                  <<"UNKNOWN", "We got the following error ValueError(\"invalid literal for int() with base 10: 'x'\")">> >>
    /\ stdout = <<"UNKNOWN: We got the following error ValueError(\"invalid literal for int() with base 10: 'x'\")|'current second'=5s;;;0;59;">>
    /\ exit_code = <<UNKNOWN_RC>>

---------------------------------------------------------------------------
(* C16 *)

\* the categories that hold a message
NonEmptyLevels == {level \in LevelSet : message_groups[level] # <<>>}

\* C16: return_code is the highest rank among the categories whose list
\* holds a message, and it is UNDEFINED (-1) if and only if the four lists
\* are empty; so once a message was recorded, the category of the exit code
\* holds a message.
C16_RankIsHighestNonEmpty ==
    /\ return_code = UNDEFINED_RC <=> NonEmptyLevels = {}
    /\ NonEmptyLevels # {} =>
          /\ \E level \in NonEmptyLevels :
                /\ return_code = RankOf(level)
                /\ get_final_return_code = RankOf(level)
          /\ \A level \in NonEmptyLevels : RankOf(level) <= return_code

\* CRITICAL, then WARNING, then OK: the rank is that of CRITICAL
C16_Witness ==
    /\ Len(calls) = 3
    /\ calls[1][1] = "CRITICAL"
    /\ calls[2][1] = "WARNING"
    /\ calls[3][1] = "OK"
    /\ NonEmptyLevels = {"CRITICAL", "WARNING", "OK"}
    /\ return_code = CRITICAL_RC

---------------------------------------------------------------------------
(* C17 *)

\* the list of a category grows by one message in the step
Grows(level) ==
    /\ Len(message_groups'[level]) = Len(message_groups[level]) + 1
    /\ SubSeq(message_groups'[level], 1, Len(message_groups[level])) = message_groups[level]

\* C17: a call of evaluate_numeric_thresholds adds one message to exactly
\* one of OK, WARNING and CRITICAL and none to UNKNOWN; the critical test
\* comes first: a value that reaches the critical threshold is CRITICAL
\* whatever the warning threshold is, also when the thresholds are in the
\* wrong order, and WARNING is only recorded for a value strictly on the
\* safe side of the critical threshold.
C17_OneOutcomeCriticalFirst ==
    [][ \A name \in EvalNames, value \in Values, warning_threshold \in Values, critical_threshold \in Values, units \in EvalUnits, greater_than \in BOOLEAN :
            evaluate_numeric_thresholds(name, value, warning_threshold, critical_threshold, units, greater_than)
            => LET reaches_critical == IF greater_than THEN value >= critical_threshold ELSE value <= critical_threshold
               IN /\ Cardinality({level \in LevelSet : message_groups'[level] # message_groups[level]}) = 1
                  /\ \E level \in {"OK", "WARNING", "CRITICAL"} : Grows(level)
                  /\ message_groups'["UNKNOWN"] = message_groups["UNKNOWN"]
                  /\ Len(calls') = Len(calls) + 1
                  /\ reaches_critical => Grows("CRITICAL")
                  /\ Grows("WARNING") => ~reaches_critical ]_vars

\* value 3 with critical 1, direction above: CRITICAL for every warning
\* threshold, also 2 and 3
C17_Witness ==
    /\ calls = << <<"CRITICAL", "test 3>1">> >>
    /\ message_groups["CRITICAL"] = <<"test 3>1">>
    /\ message_groups["WARNING"] = <<>>
    /\ return_code = CRITICAL_RC

---------------------------------------------------------------------------
(* C18 *)

\* C18: quiet changes the printed line only: in a step that changes quiet
\* and nothing recorded, get_final_return_code is the same before and after,
\* and the blocks print_results would print with quiet false are those it
\* would print with quiet true, followed by the OK block when OK holds a
\* message, before the same metric section; the exit code is that of the
\* call log; a run of OK messages only prints nothing but the metric section
\* when quiet is true and exits 0; print_results changes none of
\* return_code, message_groups and performance_data.
C18_QuietOnlyChangesLine ==
    [][ /\ (quiet' # quiet /\ UNCHANGED <<message_groups, performance_data, return_code>>) =>
              LET quiet_blocks == IF quiet THEN messages_blocks(1) ELSE messages_blocks(1)'
                  loud_blocks == IF quiet THEN messages_blocks(1)' ELSE messages_blocks(1)
                  quiet_line == IF quiet THEN print_results ELSE print_results'
                  loud_line == IF quiet THEN print_results' ELSE print_results
                  ok_blocks == IF message_groups["OK"] = <<>> THEN <<>> ELSE <<RefBlock("OK")>>
              IN /\ get_final_return_code' = get_final_return_code
                 /\ loud_blocks = quiet_blocks \o ok_blocks
                 /\ quiet_line = JoinLeft("; ", quiet_blocks, Len(quiet_blocks)) \o RefPerfSection
                 /\ loud_line = JoinLeft("; ", loud_blocks, Len(loud_blocks)) \o RefPerfSection
        /\ PrintResults =>
              /\ UNCHANGED <<return_code, message_groups, performance_data>>
              /\ (quiet /\ NonEmptyLevels = {"OK"}) =>
                    /\ stdout' = <<RefPerfSection>>
                    /\ get_final_return_code = OK_RC
        /\ Exit => exit_code' = <<IF calls = <<>> THEN UNKNOWN_RC ELSE MaxRecordedRank>> ]_vars

\* OK messages only, quiet: the line is the metric section alone, exit code 0
C18_Witness ==
    /\ quiet = TRUE
    /\ message_groups["OK"] = <<"test", "test_ok">>
    /\ NonEmptyLevels = {"OK"}
    /\ stdout = <<"|'name'=1x;2;3;0;5;">>
    /\ exit_code = <<OK_RC>>

===========================================================================
